---- MODULE Spec2Model ----
(***************************************************************************)
(* pycrafter4500: the DLPC350 command framer (dlpc350.command), the bit    *)
(* field codec (conv_len, bits_to_bytes), the command catalog and the      *)
(* pattern_mode sequence, over a USB channel whose write and read may      *)
(* raise USBError.                                                         *)
(***************************************************************************)
EXTENDS Integers, Sequences, FiniteSets, TLC

VARIABLES
    dev,      \* the usb device: "none", "configured" (set_configuration), "reset"
    proc,     \* the caller that owns the connect_usb scope: "none", "pattern_mode", "direct"
    pc,       \* position of that caller
    args,     \* the arguments pattern_mode was called with
    slot,     \* loop variable i of pattern_mode's LUT loop
    log,      \* channel operations attempted so far, in order
    calls,    \* dlpc350.command calls so far, in order: the arguments, how many
              \* channel operations preceded the call (at), how it ended (result)
    ans,      \* self.ans: ordinal of the command whose reply is stored, 0 while unset
    printed,  \* number of 'USB Error:' lines printed
    exc,      \* exception that left the connect_usb block, "none" otherwise
    op        \* the function a caller of its own called by name: the name, the
              \* arguments and, for the codec functions, the values returned

vars == <<dev, proc, pc, args, slot, log, calls, ans, printed, exc, op>>

-----------------------------------------------------------------------------
(* Bounds of the model *)

\* largest payload length of a direct command() call (three packets)
MaxDataLen == 123
\* most direct command() calls in one connect_usb scope
MaxDirect == 2
\* most reply reads that raise USBError in one scope
MaxReadFaults == 1
\* a write that raises USBError is one of the first MaxWriteFault of its command
MaxWriteFault == 3
\* largest num_pats given to pattern_mode
MaxNumPats == 4
\* largest bit_depth given to pattern_mode
MaxBitDepth == 8
\* largest integer given in place of a mode or action name
MaxRawMode == 4
\* largest field width given to conv_len by a caller of its own
MaxWidth == 9

-----------------------------------------------------------------------------
(* Program constants *)

PacketSize == 64
SingleLimit == 65
ContOffset == 58
LenFieldBits == 16
EndpointOut == 1
EndpointIn == 129
ReplySize == 64
LutSlots == 3

-----------------------------------------------------------------------------
(* BitField codec *)

\* '0' * n, the empty string when n <= 0
Zeros(n) == IF n <= 0 THEN <<>> ELSE [i \in 1..n |-> "0"]

\* range(n) zero bytes, none when n <= 0
ZeroBytes(n) == IF n <= 0 THEN <<>> ELSE [i \in 1..n |-> 0]

Reverse(s) == [i \in 1..Len(s) |-> s[Len(s) + 1 - i]]

RECURSIVE Digits(_)
Digits(n) ==
    IF n < 2 THEN <<IF n = 0 THEN "0" ELSE "1">>
    ELSE Digits(n \div 2) \o <<IF n % 2 = 0 THEN "0" ELSE "1">>

\* bin(a)[2:]: for a negative a, bin(a) is '-0b...' and the slice keeps the 'b'
BinTail(a) == IF a < 0 THEN <<"b">> \o Digits(-a) ELSE Digits(a)

conv_len(a, l) ==
    LET b == BinTail(a)
        padding == l - Len(b)
    IN  Zeros(padding) \o b

\* int(s, 2) is defined on strings of '0' and '1' only (ValueError otherwise)
IsBits(s) == \A i \in 1..Len(s) : s[i] \in {"0", "1"}

RECURSIVE IntOfBits(_)
IntOfBits(s) ==
    IF Len(s) = 0 THEN 0
    ELSE 2 * IntOfBits(SubSeq(s, 1, Len(s) - 1)) + (IF s[Len(s)] = "1" THEN 1 ELSE 0)

\* (mutant) the padding is appended instead of prepended
bits_to_bytes_PadRight(a, reverse) ==
    LET padded == IF Len(a) % 8 # 0 THEN a \o Zeros(8 - (Len(a) % 8)) ELSE a
        bytelist == [i \in 1..(Len(padded) \div 8) |->
                        IntOfBits(SubSeq(padded, 8 * (i - 1) + 1, 8 * i))]
    IN  IF reverse THEN Reverse(bytelist) ELSE bytelist

bits_to_bytes(a, reverse) ==
    LET padded == IF Len(a) % 8 # 0 THEN Zeros(8 - (Len(a) % 8)) \o a ELSE a
        bytelist == [i \in 1..(Len(padded) \div 8) |->
                        IntOfBits(SubSeq(padded, 8 * (i - 1) + 1, 8 * i))]
    IN  IF reverse THEN Reverse(bytelist) ELSE bytelist

fps_to_period(fps) == 1000000 \div fps

-----------------------------------------------------------------------------
(* Command framer: the buffers dlpc350.command hands to dlpc.write, in order *)

Header(mode, sequence_byte, com1, com2, data) ==
    LET flagstring == IF mode = "r" THEN 192 ELSE 64
        data_len == bits_to_bytes(conv_len(Len(data) + 2, LenFieldBits), TRUE)
    IN  <<flagstring, sequence_byte>> \o data_len \o <<com2, com1>>

\* (mutant) the last partial packet is written without the zero fill
ContLoop_NoFill(data) ==
    LET n == Len(data) - ContOffset
        full == n \div PacketSize
        tail == n % PacketSize
    IN  IF n <= 0 THEN <<>>
        ELSE [k \in 1..(full + (IF tail # 0 THEN 1 ELSE 0)) |->
                [i \in 1..(IF k <= full THEN PacketSize ELSE tail) |->
                    data[PacketSize * (k - 1) + (i - 1) + ContOffset + 1]]]

\* the while loop of the multi-packet branch and the padded write after it:
\* the loop appends data[j + 58] for j = 0 .. len(data) - 59 and writes the
\* buffer whenever j reaches a multiple of 64; what is left is zero-filled
ContLoop(data) ==
    LET n == Len(data) - ContOffset
        full == n \div PacketSize
        tail == n % PacketSize
    IN  IF n <= 0 THEN <<>>
        ELSE [k \in 1..(full + (IF tail # 0 THEN 1 ELSE 0)) |->
                [i \in 1..PacketSize |->
                    LET j == PacketSize * (k - 1) + (i - 1)
                    IN  IF j < n THEN data[j + ContOffset + 1] ELSE 0]]

\* (mutant) the single-packet test is <= 65 instead of < 65
Packets_Le65(mode, sequence_byte, com1, com2, data) ==
    LET buffer == Header(mode, sequence_byte, com1, com2, data)
    IN  IF Len(buffer) + Len(data) <= SingleLimit
        THEN <<buffer \o data \o ZeroBytes(PacketSize - (Len(buffer) + Len(data)))>>
        ELSE <<buffer \o SubSeq(data, 1, PacketSize - Len(buffer))>> \o ContLoop(data)

Packets(mode, sequence_byte, com1, com2, data) ==
    LET buffer == Header(mode, sequence_byte, com1, com2, data)
    IN  IF Len(buffer) + Len(data) < SingleLimit
        THEN <<buffer \o data \o ZeroBytes(PacketSize - (Len(buffer) + Len(data)))>>
        ELSE <<buffer \o SubSeq(data, 1, PacketSize - Len(buffer))>> \o ContLoop(data)

-----------------------------------------------------------------------------
(* Command catalog: what each operation hands to dlpc350.command, or the    *)
(* exception it raises before calling it                                    *)

Cmd(com1, com2, data) ==
    [exc |-> "none", mode |-> "w", seq |-> 0, com1 |-> com1, com2 |-> com2, data |-> data]

Raise(e) == [exc |-> e]

\* bits_to_bytes(payload) followed by self.command('w', 0x00, com1, com2, payload)
CmdBits(com1, com2, bits) ==
    IF IsBits(bits) THEN Cmd(com1, com2, bits_to_bytes(bits, TRUE)) ELSE Raise("ValueError")

\* x == y of two python values, each a str or an int: a str never equals an int
PyEq(x, y) == ToString(x) = ToString(y)

\* if mode in modes: mode = modes.index(mode)
EnumIndex(modes, mode) ==
    IF \E i \in 1..Len(modes) : PyEq(modes[i], mode)
    THEN (CHOOSE i \in 1..Len(modes) :
              PyEq(modes[i], mode) /\ \A j \in 1..(i - 1) : ~PyEq(modes[j], mode)) - 1
    ELSE mode

BoolBit(b) == IF b THEN "1" ELSE "0"

start_pattern_lut_validate == CmdBits(26, 26, conv_len(0, 8))

set_display_mode(mode) == Cmd(26, 27, <<EnumIndex(<<"video", "pattern">>, mode)>>)

set_pattern_input_source(mode) ==
    Cmd(26, 34, <<EnumIndex(<<"video", "", "", "flash">>, mode)>>)

set_pattern_trigger_mode(mode) == Cmd(26, 35, <<EnumIndex(<<"vsync">>, mode)>>)

pattern_display(action) == Cmd(26, 36, <<EnumIndex(<<"stop", "pause", "start">>, action)>>)

set_exposure_frame_period(exposure_period, frame_period) ==
    CmdBits(26, 41, conv_len(frame_period, 32) \o conv_len(exposure_period, 32))

\* (mutant) the repeat flag is the top bit of its byte
set_pattern_config_FlagHigh(num_lut_entries, do_repeat, num_pats_for_trig_out2, num_images) ==
    CmdBits(26, 49,
            (<<"0", "0">> \o conv_len(num_images, 6))
                \o conv_len(num_pats_for_trig_out2 - 1, 8)
                \o (<<BoolBit(do_repeat)>> \o Zeros(7))
                \o (<<"0">> \o conv_len(num_lut_entries - 1, 7)))

set_pattern_config(num_lut_entries, do_repeat, num_pats_for_trig_out2, num_images) ==
    CmdBits(26, 49,
            (<<"0", "0">> \o conv_len(num_images, 6))
                \o conv_len(num_pats_for_trig_out2 - 1, 8)
                \o (Zeros(7) \o <<BoolBit(do_repeat)>>)
                \o (<<"0">> \o conv_len(num_lut_entries - 1, 7)))

mailbox_set_address(address) == CmdBits(26, 50, conv_len(address, 8))

open_mailbox(mbox_num) == CmdBits(26, 51, conv_len(mbox_num, 8))

\* (mutant) the four flags of byte 2 are packed in the opposite order
send_pattern_lut_FlagsSwapped(trig_type, pat_num, bit_depth, led_select, do_invert_pat, do_insert_black, do_buf_swap, do_trig_out_prev) ==
    LET byte_0 == conv_len(pat_num, 6) \o conv_len(trig_type, 2)
        byte_1 == conv_len(led_select, 4) \o conv_len(bit_depth, 4)
        byte_2 == Zeros(4) \o <<BoolBit(do_invert_pat), BoolBit(do_insert_black),
                                 BoolBit(do_buf_swap), BoolBit(do_trig_out_prev)>>
    IN  CmdBits(26, 52, byte_2 \o byte_1 \o byte_0)

send_pattern_lut(trig_type, pat_num, bit_depth, led_select, do_invert_pat, do_insert_black, do_buf_swap, do_trig_out_prev) ==
    LET byte_0 == conv_len(pat_num, 6) \o conv_len(trig_type, 2)
        byte_1 == conv_len(led_select, 4) \o conv_len(bit_depth, 4)
        byte_2 == Zeros(4) \o <<BoolBit(do_trig_out_prev), BoolBit(do_buf_swap),
                                 BoolBit(do_insert_black), BoolBit(do_invert_pat)>>
    IN  CmdBits(26, 52, byte_2 \o byte_1 \o byte_0)

-----------------------------------------------------------------------------
(* pattern_mode's tables *)

ValidBitDepths == {1, 2, 4, 7, 8}

bit_map(d) ==
    CASE d = 1 -> <<7, 15, 23>>
      [] d = 2 -> <<3, 7, 11>>
      [] d = 4 -> <<1, 3, 5>>
      [] d = 7 -> <<0, 1, 2>>
      [] d = 8 -> <<0, 1, 2>>

\* trig_type of LUT slot i (0-based) in pattern_mode's loop
SlotTrigType(i) == IF i = 0 THEN 1 ELSE 3

DefaultPeriod == fps_to_period(222)

-----------------------------------------------------------------------------
(* Inputs *)

\* payload of n bytes, every byte nonzero and neighbours distinct
Data(n) == SubSeq([i \in 1..n |-> ((i - 1) % 255) + 1], 1, n)

\* payload lengths of a lone command() call: every length up to MaxDataLen
AllLens == 0..MaxDataLen

\* payload lengths whose length field len + 2 is the last that fits 16 bits
\* and the first that does not
BulkLens == {65533, 65534}

\* payload lengths of the commands of a sequence: none, and those that make
\* the last packet exactly full or one byte more (6 + n = 64, 65, 128, 129)
BoundaryLens == {n \in AllLens : n = 0 \/ n % PacketSize \in {58, 59}}

\* data=None, the default of command()
NoData == -1

Headers ==
    { [mode |-> "w", seq |-> 7, com1 |-> 26, com2 |-> 52],
      [mode |-> "r", seq |-> 0, com1 |-> 2, com2 |-> 12] }

DefaultArgs ==
    [input_mode |-> "pattern", input_type |-> "video", num_pats |-> 3,
     trigger_type |-> "vsync", period |-> DefaultPeriod, bit_depth |-> 7,
     led_color |-> 7]

\* the calls of pattern_mode: the defaults, with at most one argument changed
PMArgs ==
    {[DefaultArgs EXCEPT !.input_mode = m] : m \in {"pattern", "video"}}
        \cup {[DefaultArgs EXCEPT !.input_type = t] : t \in {"video", "flash"}}
        \cup {[DefaultArgs EXCEPT !.num_pats = n] : n \in 0..MaxNumPats}
        \cup {[DefaultArgs EXCEPT !.bit_depth = d] : d \in 0..MaxBitDepth}

\* the names a caller gives to set_display_mode, set_pattern_input_source
\* (its list holds two empty names between 'video' and 'flash'),
\* set_pattern_trigger_mode and pattern_display
DisplayModeNames == {"video", "pattern"}

InputSourceNames == {"video", "", "flash"}

TriggerModeNames == {"vsync"}

DisplayActionNames == {"stop", "pause", "start"}

\* integers given in place of a name
RawModes == 0..MaxRawMode

\* arguments of a send_pattern_lut call of the caller's own: values that fit
\* the fields (2, 6, 4 and 4 bits), among them the smallest and the largest,
\* and for trig_type, pat_num and bit_depth the first value that does not fit
TrigTypes == {0, 1, 2, 3, 4}

PatNums == {0, 23, 63, 64}

BitDepths == {0, 3, 7, 15, 16}

LedSelects == {0, 7, 15}

\* arguments of a mailbox_set_address call of the caller's own (8 bits)
Addresses == {0, 2, 127, 128, 255, 256}

\* arguments of a set_pattern_config call of the caller's own
\* (entries - 1 in 7 bits, patterns - 1 in 8 bits, images in 6 bits)
LutEntryCounts == {1, 3, 128, 129}

TrigOut2Counts == {1, 3, 256, 257}

ImageCounts == {0, 63, 64}

\* arguments of a conv_len call of the caller's own: every value of the
\* width, and the first value that does not fit it
Widths == 1..MaxWidth

Values(w) == 0..(2 ^ w)

-----------------------------------------------------------------------------
(* State machine *)

Init ==
    /\ dev = "none"
    /\ proc = "none"
    /\ pc = "idle"
    /\ args = DefaultArgs
    /\ slot = 0
    /\ log = <<>>
    /\ calls = <<>>
    /\ ans = 0
    /\ printed = 0
    /\ exc = "none"
    /\ op = [name |-> "none"]

\* (mutant) the reply is read before the last packet is written
Command_ReadEarly(mode, sequence_byte, com1, com2, data, wfail, rfail, next) ==
    LET k == Len(calls) + 1
        pk == Packets(mode, sequence_byte, com1, com2, data)
        nw == IF wfail = 0 THEN Len(pk) ELSE wfail
        writes == [i \in 1..nw |->
                     [op |-> "write", ep |-> EndpointOut, buf |-> pk[i],
                      ok |-> (i # wfail), cmd |-> k]]
        reads == IF wfail = 0
                 THEN <<[op |-> "read", ep |-> EndpointIn, size |-> ReplySize,
                         ok |-> ~rfail, cmd |-> k]>>
                 ELSE <<>>
    IN  /\ wfail <= Len(pk)
        /\ rfail => (wfail = 0 /\ printed < MaxReadFaults)
        /\ log' = log \o SubSeq(writes, 1, nw - 1) \o reads \o SubSeq(writes, nw, nw)
        /\ calls' = Append(calls, [mode |-> mode, seq |-> sequence_byte, com1 |-> com1,
                                   com2 |-> com2, data |-> data, len |-> Len(data),
                                   at |-> Len(log),
                                   result |-> IF wfail = 0 THEN "returned" ELSE "USBError"])
        /\ ans' = IF wfail = 0 /\ ~rfail THEN k ELSE ans
        /\ printed' = IF rfail THEN printed + 1 ELSE printed
        /\ exc' = IF wfail = 0 THEN exc ELSE "USBError"
        /\ pc' = IF wfail = 0 THEN next ELSE "raised"

\* (mutant) the USBError of the reply read is not caught
Command_ReadFatal(mode, sequence_byte, com1, com2, data, wfail, rfail, next) ==
    LET k == Len(calls) + 1
        pk == Packets(mode, sequence_byte, com1, com2, data)
        nw == IF wfail = 0 THEN Len(pk) ELSE wfail
        writes == [i \in 1..nw |->
                     [op |-> "write", ep |-> EndpointOut, buf |-> pk[i],
                      ok |-> (i # wfail), cmd |-> k]]
        reads == IF wfail = 0
                 THEN <<[op |-> "read", ep |-> EndpointIn, size |-> ReplySize,
                         ok |-> ~rfail, cmd |-> k]>>
                 ELSE <<>>
        raised == wfail # 0 \/ rfail
    IN  /\ wfail <= Len(pk)
        /\ rfail => (wfail = 0 /\ printed < MaxReadFaults)
        /\ log' = log \o writes \o reads
        /\ calls' = Append(calls, [mode |-> mode, seq |-> sequence_byte, com1 |-> com1,
                                   com2 |-> com2, data |-> data, len |-> Len(data),
                                   at |-> Len(log),
                                   result |-> IF raised THEN "USBError" ELSE "returned"])
        /\ ans' = IF raised THEN ans ELSE k
        /\ printed' = IF rfail THEN printed + 1 ELSE printed
        /\ exc' = IF raised THEN "USBError" ELSE exc
        /\ pc' = IF raised THEN "raised" ELSE next

\* (mutant) a write that raises is swallowed: the rest of the packets and the
\* reply read follow
Command_WriteIgnored(mode, sequence_byte, com1, com2, data, wfail, rfail, next) ==
    LET k == Len(calls) + 1
        pk == Packets(mode, sequence_byte, com1, com2, data)
        writes == [i \in 1..Len(pk) |->
                     [op |-> "write", ep |-> EndpointOut, buf |-> pk[i],
                      ok |-> (i # wfail), cmd |-> k]]
        reads == <<[op |-> "read", ep |-> EndpointIn, size |-> ReplySize,
                    ok |-> ~rfail, cmd |-> k]>>
    IN  /\ wfail <= Len(pk)
        /\ rfail => (wfail = 0 /\ printed < MaxReadFaults)
        /\ log' = log \o writes \o reads
        /\ calls' = Append(calls, [mode |-> mode, seq |-> sequence_byte, com1 |-> com1,
                                   com2 |-> com2, data |-> data, len |-> Len(data),
                                   at |-> Len(log), result |-> "returned"])
        /\ ans' = IF ~rfail THEN k ELSE ans
        /\ printed' = IF rfail THEN printed + 1 ELSE printed
        /\ exc' = exc
        /\ pc' = next

\* (mutant) the handler of the read's USBError clears the stored reply
Command_AnsCleared(mode, sequence_byte, com1, com2, data, wfail, rfail, next) ==
    LET k == Len(calls) + 1
        pk == Packets(mode, sequence_byte, com1, com2, data)
        nw == IF wfail = 0 THEN Len(pk) ELSE wfail
        writes == [i \in 1..nw |->
                     [op |-> "write", ep |-> EndpointOut, buf |-> pk[i],
                      ok |-> (i # wfail), cmd |-> k]]
        reads == IF wfail = 0
                 THEN <<[op |-> "read", ep |-> EndpointIn, size |-> ReplySize,
                         ok |-> ~rfail, cmd |-> k]>>
                 ELSE <<>>
    IN  /\ wfail <= Len(pk)
        /\ rfail => (wfail = 0 /\ printed < MaxReadFaults)
        /\ log' = log \o writes \o reads
        /\ calls' = Append(calls, [mode |-> mode, seq |-> sequence_byte, com1 |-> com1,
                                   com2 |-> com2, data |-> data, len |-> Len(data),
                                   at |-> Len(log),
                                   result |-> IF wfail = 0 THEN "returned" ELSE "USBError"])
        /\ ans' = IF wfail # 0 THEN ans ELSE IF rfail THEN 0 ELSE k
        /\ printed' = IF rfail THEN printed + 1 ELSE printed
        /\ exc' = IF wfail = 0 THEN exc ELSE "USBError"
        /\ pc' = IF wfail = 0 THEN next ELSE "raised"

\* One call of dlpc350.command. Write number wfail raises USBError (0: none
\* does); the reply read raises USBError iff rfail. An exception leaves the
\* connect_usb block, since no caller in the module catches one.
Command(mode, sequence_byte, com1, com2, data, wfail, rfail, next) ==
    LET k == Len(calls) + 1
        pk == Packets(mode, sequence_byte, com1, com2, data)
        nw == IF wfail = 0 THEN Len(pk) ELSE wfail
        writes == [i \in 1..nw |->
                     [op |-> "write", ep |-> EndpointOut, buf |-> pk[i],
                      ok |-> (i # wfail), cmd |-> k]]
        reads == IF wfail = 0
                 THEN <<[op |-> "read", ep |-> EndpointIn, size |-> ReplySize,
                         ok |-> ~rfail, cmd |-> k]>>
                 ELSE <<>>
    IN  /\ wfail <= Len(pk)
        /\ rfail => (wfail = 0 /\ printed < MaxReadFaults)
        /\ log' = log \o writes \o reads
        /\ calls' = Append(calls, [mode |-> mode, seq |-> sequence_byte, com1 |-> com1,
                                   com2 |-> com2, data |-> data, len |-> Len(data),
                                   at |-> Len(log),
                                   result |-> IF wfail = 0 THEN "returned" ELSE "USBError"])
        /\ ans' = IF wfail = 0 /\ ~rfail THEN k ELSE ans
        /\ printed' = IF rfail THEN printed + 1 ELSE printed
        /\ exc' = IF wfail = 0 THEN exc ELSE "USBError"
        /\ pc' = IF wfail = 0 THEN next ELSE "raised"

\* A catalog operation: it raises while encoding, or calls command
Issue(c, wfail, rfail, next) ==
    IF c.exc # "none"
    THEN /\ wfail = 0
         /\ ~rfail
         /\ exc' = c.exc
         /\ pc' = "raised"
         /\ UNCHANGED <<log, calls, ans, printed>>
    ELSE Command(c.mode, c.seq, c.com1, c.com2, c.data, wfail, rfail, next)

\* pattern_mode(...) up to the yield of connect_usb
PatternModeCall ==
    /\ proc = "none"
    /\ \E a \in PMArgs : args' = a
    /\ proc' = "pattern_mode"
    /\ dev' = "configured"
    /\ pc' = "assert"
    /\ UNCHANGED <<slot, log, calls, ans, printed, exc, op>>

PMAssert ==
    /\ proc = "pattern_mode" /\ pc = "assert"
    /\ IF args.bit_depth \in ValidBitDepths
       THEN pc' = "stop" /\ exc' = exc
       ELSE pc' = "raised" /\ exc' = "AssertionError"
    /\ UNCHANGED <<dev, proc, args, slot, log, calls, ans, printed, op>>

PMStep(at, c, next) ==
    /\ proc = "pattern_mode" /\ pc = at
    /\ \E wfail \in 0..1, rfail \in BOOLEAN : Issue(c, wfail, rfail, next)
    /\ UNCHANGED <<dev, proc, args, op>>

PMStop == PMStep("stop", pattern_display("stop"), "display_mode") /\ UNCHANGED slot

PMDisplayMode ==
    PMStep("display_mode", set_display_mode(args.input_mode), "input_source")
        /\ UNCHANGED slot

PMInputSource ==
    PMStep("input_source", set_pattern_input_source(args.input_type), "config")
        /\ UNCHANGED slot

PMConfig ==
    PMStep("config", set_pattern_config(args.num_pats, TRUE, args.num_pats, 0), "trigger")
        /\ UNCHANGED slot

\* (mutant) the trigger mode selection is left out
PMTrigger_Skipped ==
    /\ proc = "pattern_mode" /\ pc = "trigger"
    /\ pc' = "exposure"
    /\ UNCHANGED <<dev, proc, args, slot, log, calls, ans, printed, exc, op>>

PMTrigger ==
    PMStep("trigger", set_pattern_trigger_mode(args.trigger_type), "exposure")
        /\ UNCHANGED slot

PMExposure ==
    PMStep("exposure", set_exposure_frame_period(args.period, args.period), "open")
        /\ UNCHANGED slot

\* (mutant) the image index mailbox is opened instead of the pattern mailbox
PMOpenMailbox_Image == PMStep("open", open_mailbox(1), "addr") /\ slot' = 0

PMOpenMailbox == PMStep("open", open_mailbox(2), "addr") /\ slot' = 0

PMSetAddress == PMStep("addr", mailbox_set_address(slot), "lut") /\ UNCHANGED slot

PMSendLut ==
    /\ PMStep("lut",
              send_pattern_lut(SlotTrigType(slot), bit_map(args.bit_depth)[slot + 1],
                               args.bit_depth, args.led_color, FALSE, FALSE, FALSE, FALSE),
              IF slot + 1 < LutSlots THEN "addr" ELSE "close")
    /\ slot' = slot + 1

PMCloseMailbox == PMStep("close", open_mailbox(0), "validate") /\ UNCHANGED slot

PMValidate == PMStep("validate", start_pattern_lut_validate, "start1") /\ UNCHANGED slot

\* (mutant) the sequence is started once
PMStart1_Only == PMStep("start1", pattern_display("start"), "exit") /\ UNCHANGED slot

PMStart1 == PMStep("start1", pattern_display("start"), "start2") /\ UNCHANGED slot

PMStart2 == PMStep("start2", pattern_display("start"), "exit") /\ UNCHANGED slot

\* a caller of its own: with connect_usb() as lcr, up to the yield
DirectCall ==
    /\ proc = "none"
    /\ proc' = "direct"
    /\ dev' = "configured"
    /\ pc' = "body"
    /\ UNCHANGED <<args, slot, log, calls, ans, printed, exc, op>>

\* the caller issues at most MaxDirect commands, and goes on after a command
\* only if its payload length was one of BoundaryLens
MayCommand ==
    /\ proc = "direct" /\ pc = "body"
    /\ Len(calls) < MaxDirect
    /\ \A i \in 1..Len(calls) : calls[i].len \in BoundaryLens

\* lcr.command(mode, sequence_byte, com1, com2, data) in the caller's block
DirectCommand ==
    /\ MayCommand
    /\ \E h \in Headers, n \in AllLens \cup BulkLens, wfail \in 0..MaxWriteFault,
          rfail \in BOOLEAN :
          /\ n \notin BoundaryLens => calls = <<>>
          /\ Command(h.mode, h.seq, h.com1, h.com2, Data(n), wfail, rfail, "body")
    /\ UNCHANGED <<dev, proc, args, slot, op>>

\* lcr.command(mode, sequence_byte, com1, com2): len(None) raises TypeError
DirectCommandNoData ==
    /\ MayCommand
    /\ \E h \in Headers :
          calls' = Append(calls, [mode |-> h.mode, seq |-> h.seq, com1 |-> h.com1,
                                  com2 |-> h.com2, data |-> <<>>, len |-> NoData,
                                  at |-> Len(log),
                                  result |-> "TypeError"])
    /\ exc' = "TypeError"
    /\ pc' = "raised"
    /\ UNCHANGED <<dev, proc, args, slot, log, ans, printed, op>>

\* lcr.get_main_status(pretty_print) in the caller's block, up to the return
\* of its command
CallGetMainStatus ==
    /\ MayCommand
    /\ op.name = "none"
    /\ \E pretty_print \in BOOLEAN :
          op' = [name |-> "get_main_status", pretty_print |-> pretty_print,
                 after |-> Len(calls) + 1, decoded |-> FALSE, shown |-> 0]
    /\ \E wfail \in 0..1, rfail \in BOOLEAN :
          Command("r", 0, 26, 12, <<>>, wfail, rfail, "status")
    /\ UNCHANGED <<dev, proc, args, slot>>

\* the rest of get_main_status: with pretty_print, self.ans[4] is decoded and
\* printed; self.ans is no attribute until a read has succeeded
GetMainStatusPrint ==
    /\ proc = "direct" /\ pc = "status"
    /\ IF ~op.pretty_print
       THEN pc' = "body" /\ UNCHANGED <<op, exc>>
       ELSE IF ans = 0
            THEN pc' = "raised" /\ exc' = "AttributeError" /\ UNCHANGED op
            ELSE /\ pc' = "body"
                 /\ op' = [op EXCEPT !.decoded = TRUE, !.shown = ans]
                 /\ UNCHANGED exc
    /\ UNCHANGED <<dev, proc, args, slot, log, calls, ans, printed>>

\* lcr.read_reply() in the caller's block, after commands with payload
\* lengths of BoundaryLens: self.ans is printed; it is no attribute until a
\* read has succeeded
CallReadReply ==
    /\ proc = "direct" /\ pc = "body"
    /\ op.name = "none"
    /\ \A i \in 1..Len(calls) : calls[i].len \in BoundaryLens
    /\ IF ans = 0
       THEN /\ pc' = "raised" /\ exc' = "AttributeError"
            /\ op' = [name |-> "read_reply", after |-> Len(calls),
                      decoded |-> FALSE, shown |-> 0]
       ELSE /\ pc' = "body" /\ exc' = exc
            /\ op' = [name |-> "read_reply", after |-> Len(calls),
                      decoded |-> TRUE, shown |-> ans]
    /\ UNCHANGED <<dev, proc, args, slot, log, calls, ans, printed>>

\* a catalog operation is the first and only call of the caller's block
MayCall == proc = "direct" /\ pc = "body" /\ calls = <<>>

\* lcr.<operation>(<arguments>) in the caller's block: o is the call, c what
\* the operation hands to command
Call(o, c) ==
    /\ op' = o
    /\ \E wfail \in 0..1, rfail \in BOOLEAN : Issue(c, wfail, rfail, "body")
    /\ UNCHANGED <<dev, proc, args, slot>>

CallSetDisplayMode ==
    /\ MayCall
    /\ \/ \E m \in DisplayModeNames :
             Call([name |-> "set_display_mode", raw |-> FALSE, mode |-> m], set_display_mode(m))
       \/ \E m \in RawModes :
             Call([name |-> "set_display_mode", raw |-> TRUE, mode |-> m], set_display_mode(m))

CallSetPatternInputSource ==
    /\ MayCall
    /\ \/ \E m \in InputSourceNames :
             Call([name |-> "set_pattern_input_source", raw |-> FALSE, mode |-> m],
                  set_pattern_input_source(m))
       \/ \E m \in RawModes :
             Call([name |-> "set_pattern_input_source", raw |-> TRUE, mode |-> m],
                  set_pattern_input_source(m))

CallSetPatternTriggerMode ==
    /\ MayCall
    /\ \/ \E m \in TriggerModeNames :
             Call([name |-> "set_pattern_trigger_mode", raw |-> FALSE, mode |-> m],
                  set_pattern_trigger_mode(m))
       \/ \E m \in RawModes :
             Call([name |-> "set_pattern_trigger_mode", raw |-> TRUE, mode |-> m],
                  set_pattern_trigger_mode(m))

CallPatternDisplay ==
    /\ MayCall
    /\ \/ \E m \in DisplayActionNames :
             Call([name |-> "pattern_display", raw |-> FALSE, mode |-> m], pattern_display(m))
       \/ \E m \in RawModes :
             Call([name |-> "pattern_display", raw |-> TRUE, mode |-> m], pattern_display(m))

CallSetPatternConfig ==
    /\ MayCall
    /\ \E n \in LutEntryCounts, r \in BOOLEAN, t \in TrigOut2Counts, i \in ImageCounts :
          Call([name |-> "set_pattern_config", num_lut_entries |-> n, do_repeat |-> r,
                num_pats_for_trig_out2 |-> t, num_images |-> i],
               set_pattern_config(n, r, t, i))

CallMailboxSetAddress ==
    /\ MayCall
    /\ \E a \in Addresses :
          Call([name |-> "mailbox_set_address", address |-> a], mailbox_set_address(a))

CallSendPatternLut ==
    /\ MayCall
    /\ \E t \in TrigTypes, p \in PatNums, d \in BitDepths, l \in LedSelects,
          inv \in BOOLEAN, blk \in BOOLEAN, swp \in BOOLEAN, prv \in BOOLEAN :
          Call([name |-> "send_pattern_lut", trig_type |-> t, pat_num |-> p,
                bit_depth |-> d, led_select |-> l, do_invert_pat |-> inv,
                do_insert_black |-> blk, do_buf_swap |-> swp, do_trig_out_prev |-> prv],
               send_pattern_lut(t, p, d, l, inv, blk, swp, prv))

\* a caller of the module's functions: bits_to_bytes(conv_len(a, l), reverse)
CallCodec ==
    /\ proc = "none"
    /\ \E l \in Widths, reverse \in BOOLEAN :
          \E a \in Values(l) :
              op' = [name |-> "conv_len", a |-> a, l |-> l, reverse |-> reverse,
                     bits |-> conv_len(a, l),
                     bytes |-> bits_to_bytes(conv_len(a, l), reverse)]
    /\ proc' = "codec"
    /\ pc' = "returned"
    /\ UNCHANGED <<dev, args, slot, log, calls, ans, printed, exc>>

\* the block ended normally: connect_usb resumes after the yield
ExitScope ==
    /\ \/ proc = "pattern_mode" /\ pc = "exit"
       \/ proc = "direct" /\ pc = "body"
    /\ dev' = "reset"
    /\ pc' = "done"
    /\ UNCHANGED <<proc, args, slot, log, calls, ans, printed, exc, op>>

Next ==
    \/ PatternModeCall
    \/ PMAssert
    \/ PMStop
    \/ PMDisplayMode
    \/ PMInputSource
    \/ PMConfig
    \/ PMTrigger
    \/ PMExposure
    \/ PMOpenMailbox
    \/ PMSetAddress
    \/ PMSendLut
    \/ PMCloseMailbox
    \/ PMValidate
    \/ PMStart1
    \/ PMStart2
    \/ DirectCall
    \/ DirectCommand
    \/ DirectCommandNoData
    \/ CallGetMainStatus
    \/ GetMainStatusPrint
    \/ CallReadReply
    \/ ExitScope

\* pattern_mode, and callers of dlpc350.command, get_main_status and read_reply
Spec == Init /\ [][Next]_vars

CatalogNext ==
    \/ DirectCall
    \/ CallSetDisplayMode
    \/ CallSetPatternInputSource
    \/ CallSetPatternTriggerMode
    \/ CallPatternDisplay
    \/ CallSetPatternConfig
    \/ CallMailboxSetAddress
    \/ CallSendPatternLut
    \/ CallCodec
    \/ ExitScope

\* callers of one catalog operation, and of the codec functions
CatalogSpec == Init /\ [][CatalogNext]_vars

-----------------------------------------------------------------------------
(* Reading the channel log *)

\* the channel operations of command number k are log[First(k)..Last(k)]
First(k) == calls[k].at + 1

Last(k) == IF k < Len(calls) THEN calls[k + 1].at ELSE Len(log)

\* the number of writes (reads) command number k attempted
NumWrites(k) == Cardinality({i \in First(k)..Last(k) : log[i].op = "write"})

NumReads(k) == Cardinality({i \in First(k)..Last(k) : log[i].op = "read"})

\* byte i of the concatenation of the buffers command number k wrote, all of
\* them of 64 bytes
WireByte(k, i) ==
    log[calls[k].at + ((i - 1) \div PacketSize) + 1].buf[((i - 1) % PacketSize) + 1]

\* ceil(a / b)
CeilDiv(a, b) == (a + b - 1) \div b

-----------------------------------------------------------------------------
(* Claims *)

\* C1: every buffer dlpc350.command passes to the channel's write has exactly
\* 64 bytes, whatever the direction, the selectors and the payload length.
C1_EveryPacket64 ==
    \A i \in 1..Len(log) : log[i].op = "write" => Len(log[i].buf) = 64

\* a command above the single-packet limit was written in three packets, the
\* last of them partly filled
C1_Witness ==
    \E k \in 1..Len(calls) :
        /\ calls[k].result = "returned"
        /\ calls[k].len = 123
        /\ NumWrites(k) = 3

\* C2: the packets of one command, concatenated in write order, are the 6-byte
\* header, then every payload byte once and in order, then only zero bytes;
\* hence number_of_packets * 64 >= 6 + len(payload).
C2_HeaderPayloadZeros ==
    \A k \in 1..Len(calls) :
        calls[k].result = "returned" =>
            /\ \A i \in First(k)..(Last(k) - 1) :
                  log[i].op = "write" /\ Len(log[i].buf) = PacketSize
            /\ (Last(k) - First(k)) * PacketSize >= 6 + calls[k].len
            /\ \A i \in 1..calls[k].len : WireByte(k, 6 + i) = calls[k].data[i]
            /\ \A i \in (6 + calls[k].len + 1)..((Last(k) - First(k)) * PacketSize) :
                  WireByte(k, i) = 0

\* C3: one packet when 6 + len(payload) <= 64; otherwise
\* 1 + ceil((len(payload) - 58) / 64) packets, the second of which starts with
\* the payload byte at offset 58.
C3_PacketCount ==
    \A k \in 1..Len(calls) :
        calls[k].result = "returned" =>
            /\ 6 + calls[k].len <= 64 => NumWrites(k) = 1
            /\ 6 + calls[k].len >= 65 =>
                  /\ NumWrites(k) = 1 + CeilDiv(calls[k].len - 58, 64)
                  /\ log[First(k) + 1].op = "write"
                  /\ \A i \in 1..64 :
                        58 + i <= calls[k].len =>
                            log[First(k) + 1].buf[i] = calls[k].data[58 + i]

\* commands with total = 64 (one packet) and total = 65 (two packets) were
\* both written in one scope
C3_Witness ==
    \E j, k \in 1..Len(calls) :
        /\ calls[j].result = "returned" /\ calls[j].len = 58 /\ NumWrites(j) = 1
        /\ calls[k].result = "returned" /\ calls[k].len = 59 /\ NumWrites(k) = 2

\* C4 as stated: every command attempts exactly one read of 64 bytes from
\* endpoint 0x81, after all of its writes.
C4_OneReadPerCommand ==
    \A k \in 1..Len(calls) :
        /\ NumReads(k) = 1
        /\ log[Last(k)].op = "read"
        /\ log[Last(k)].ep = 129 /\ log[Last(k)].size = 64
        /\ \A i \in First(k)..(Last(k) - 1) : log[i].op = "write"

\* C4 (amended): the operations of a command are contiguous in the log; a
\* command whose writes all succeed ends with its only read, of 64 bytes from
\* endpoint 0x81, after all of its writes; a command that raised attempted no
\* read and is the last command of its scope. So no packet of a later command
\* is written before the read of the previous command was attempted.
C4_RequestReply ==
    \A k \in 1..Len(calls) :
        /\ \A i \in First(k)..Last(k) : log[i].cmd = k
        /\ calls[k].result = "returned" =>
              /\ NumReads(k) = 1
              /\ NumWrites(k) >= 1
              /\ log[Last(k)].op = "read"
              /\ log[Last(k)].ep = 129 /\ log[Last(k)].size = 64
              /\ \A i \in First(k)..(Last(k) - 1) : log[i].op = "write" /\ log[i].ep = 1
        /\ calls[k].result # "returned" =>
              /\ NumReads(k) = 0
              /\ k = Len(calls)

\* a three-packet command was followed by another command
C4_Witness ==
    /\ Len(calls) = 2
    /\ calls[1].result = "returned" /\ NumWrites(1) = 3
    /\ calls[2].result = "returned" /\ NumWrites(2) = 2

\* C5: on every exit of the connect_usb block, normal or by an exception, the
\* device has been reset.
C5_ResetOnEveryExit == pc \in {"done", "raised"} => dev = "reset"

\* the selectors <<com1, com2>> of command number k, as written on the wire
Sel(k) == <<log[First(k)].buf[6], log[First(k)].buf[5]>>

\* the payload length command number k announces in its header
WireLen(k) == log[First(k)].buf[3] + 256 * log[First(k)].buf[4] - 2

\* the first payload byte of command number k, as written on the wire
Arg(k) == log[First(k)].buf[7]

\* the selectors of a pattern_mode run no read of which failed
PMOrder ==
    <<<<26, 36>>, <<26, 27>>, <<26, 34>>, <<26, 49>>, <<26, 35>>, <<26, 41>>,
      <<26, 51>>, <<26, 50>>, <<26, 52>>, <<26, 50>>, <<26, 52>>, <<26, 50>>,
      <<26, 52>>, <<26, 51>>, <<26, 26>>, <<26, 36>>, <<26, 36>>>>

\* C6: a USBError on the reply read is printed and the command returns
\* normally; a USBError that leaves the block comes from a write, never from
\* a read; in pattern_mode the commands are written in the same order whether
\* or not reads failed, and a run that completes has written all of them.
C6_ReadErrorNotFatal ==
    /\ \A i \in 1..Len(log) :
          (log[i].op = "read" /\ ~log[i].ok) => calls[log[i].cmd].result = "returned"
    /\ printed = Cardinality({i \in 1..Len(log) : log[i].op = "read" /\ ~log[i].ok})
    /\ exc = "USBError" =>
          (Len(log) > 0 /\ log[Len(log)].op = "write" /\ ~log[Len(log)].ok)
    /\ proc = "pattern_mode" =>
          /\ Len(calls) <= Len(PMOrder)
          /\ \A k \in 1..Len(calls) : Sel(k) = PMOrder[k]
          /\ pc = "done" => Len(calls) = Len(PMOrder)

\* a pattern_mode run completed although the reply read of its first command
\* raised
C6_Witness ==
    /\ proc = "pattern_mode" /\ pc = "done"
    /\ ~log[Last(1)].ok

\* C7: a write that raises is the last channel operation of its scope: no
\* further packet, no retry, no read; the command ends with USBError, which
\* leaves the block, so no later command is issued.
C7_WriteErrorFatal ==
    \A i \in 1..Len(log) :
        (log[i].op = "write" /\ ~log[i].ok) =>
            /\ i = Len(log)
            /\ log[i].cmd = Len(calls)
            /\ calls[log[i].cmd].result = "USBError"
            /\ exc = "USBError"
            /\ pc = "raised"

\* the write of a continuation packet raised
C7_Witness ==
    \E i \in 2..Len(log) :
        /\ log[i].op = "write" /\ ~log[i].ok
        /\ log[i - 1].op = "write" /\ log[i - 1].cmd = log[i].cmd

\* pattern_mode's order with m LUT slots
OrderWith(m) ==
    <<<<26, 36>>, <<26, 27>>, <<26, 34>>, <<26, 49>>, <<26, 35>>, <<26, 41>>, <<26, 51>>>>
        \o [i \in 1..(2 * m) |-> IF i % 2 = 1 THEN <<26, 50>> ELSE <<26, 52>>]
        \o <<<<26, 51>>, <<26, 26>>, <<26, 36>>, <<26, 36>>>>

\* C8: the first command pattern_mode writes is pattern_display(stop); a
\* completed run wrote, in this order, stop, set_display_mode,
\* set_pattern_input_source, set_pattern_config, set_pattern_trigger_mode,
\* set_exposure_frame_period, open_mailbox(2), the per-slot pairs
\* (mailbox_set_address, send_pattern_lut), open_mailbox(0),
\* start_pattern_lut_validate, pattern_display(start), and nothing else.
C8_FixedOrder ==
    proc = "pattern_mode" =>
        /\ Len(calls) >= 1 => (Sel(1) = <<26, 36>> /\ WireLen(1) = 1 /\ Arg(1) = 0)
        /\ pc = "done" =>
              /\ \E m \in 0..Len(calls) :
                    [k \in 1..Len(calls) |-> Sel(k)] = OrderWith(m)
              /\ WireLen(7) = 1 /\ Arg(7) = 2
              /\ WireLen(Len(calls) - 3) = 1 /\ Arg(Len(calls) - 3) = 0
              /\ Arg(Len(calls)) = 2

\* a pattern_mode run completed with every read answered
C8_Witness == proc = "pattern_mode" /\ pc = "done" /\ printed = 0

\* command number k is pattern_display(start): a write command with selectors
\* 0x1A/0x24 and the one payload byte 2
IsStart(k) ==
    /\ log[First(k)].buf[1] = 64
    /\ Sel(k) = <<26, 36>>
    /\ WireLen(k) = 1
    /\ Arg(k) = 2

\* C9: a completed pattern_mode run sent pattern_display(start) exactly twice,
\* as its last two commands, right after start_pattern_lut_validate.
C9_StartTwiceLast ==
    (proc = "pattern_mode" /\ pc = "done") =>
        /\ Len(calls) >= 3
        /\ IsStart(Len(calls))
        /\ IsStart(Len(calls) - 1)
        /\ Sel(Len(calls) - 2) = <<26, 26>>
        /\ Cardinality({k \in 1..Len(calls) : IsStart(k)}) = 2

\* a pattern_mode run with another bit depth than the default completed
C9_Witness == proc = "pattern_mode" /\ pc = "done" /\ args.bit_depth = 1

\* the commands of the run that are mailbox_set_address, in order
AddressCmds == SelectSeq([k \in 1..Len(calls) |-> k], LAMBDA k : Sel(k) = <<26, 50>>)

\* C10: a completed pattern_mode(num_pats = N) announced N LUT entries in
\* set_pattern_config and issued exactly N pairs (mailbox_set_address(i),
\* send_pattern_lut), for i = 0 .. N-1 in increasing order.
C10_ProgramsNumPatsSlots ==
    (proc = "pattern_mode" /\ pc = "done") =>
        /\ Sel(4) = <<26, 49>> /\ Arg(4) = args.num_pats - 1
        /\ Len(AddressCmds) = args.num_pats
        /\ \A i \in 1..Len(AddressCmds) :
              /\ Arg(AddressCmds[i]) = i - 1
              /\ Sel(AddressCmds[i] + 1) = <<26, 52>>
        /\ Cardinality({k \in 1..Len(calls) : Sel(k) = <<26, 52>>}) = args.num_pats

\* the commands of the run that are send_pattern_lut, in order
LutCmds == SelectSeq([k \in 1..Len(calls) |-> k], LAMBDA k : Sel(k) = <<26, 52>>)

\* the table of pattern indices by bit depth, as the claim gives it
StatedRow(d) ==
    CASE d = 1 -> <<7, 15, 23>>
      [] d = 2 -> <<3, 7, 11>>
      [] d = 4 -> <<1, 3, 5>>
      [] d \in {7, 8} -> <<0, 1, 2>>

\* the pattern index (upper 6 bits) and the trigger type (lower 2 bits) in
\* the first payload byte of LUT command number k
WirePatNum(k) == Arg(k) \div 4

WireTrigType(k) == Arg(k) % 4

\* C11: for bit_depth d in {1, 2, 4, 7, 8} the LUT entries pattern_mode sends
\* carry, in order, the pattern indices of the table row of d, the first with
\* trigger type 0 (Internal trigger in send_pattern_lut's enumeration), the
\* second and third with trigger type 3 (no input trigger, continue).
C11_LutEntries ==
    (proc = "pattern_mode" /\ args.bit_depth \in {1, 2, 4, 7, 8}) =>
        /\ Len(LutCmds) <= 3
        /\ pc = "done" => Len(LutCmds) = 3
        /\ \A i \in 1..Len(LutCmds) :
              /\ WirePatNum(LutCmds[i]) = StatedRow(args.bit_depth)[i]
              /\ WireTrigType(LutCmds[i]) = IF i = 1 THEN 0 ELSE 3

\* the bit depth (lower 4 bits of the second payload byte) in LUT command
\* number k
WireBitDepth(k) == log[First(k)].buf[8] % 16

\* C12: a bit_depth outside {1, 2, 4, 7, 8} is rejected before encoding,
\* whether given to pattern_mode or to send_pattern_lut itself: the rejecting
\* call writes no packet, and no packet with selectors 0x1A/0x34 carries such
\* a bit depth.
C12_BitDepthRejected ==
    /\ (proc = "pattern_mode" /\ args.bit_depth \notin {1, 2, 4, 7, 8}) => log = <<>>
    /\ (op.name = "send_pattern_lut" /\ op.bit_depth \notin {1, 2, 4, 7, 8}) => log = <<>>
    /\ \A k \in 1..Len(calls) :
          (First(k) <= Len(log) /\ Sel(k) = <<26, 52>>) =>
              WireBitDepth(k) \in {1, 2, 4, 7, 8}

\* C13: a value that does not fit its declared bit width is rejected before
\* any byte is sent: conv_len returns a bit string only for a value below
\* 2^width, and then one of exactly width bits; a catalog operation given a
\* value beyond its field (trig_type > 3, pat_num > 63, bit_depth > 15,
\* led_select > 15, address > 127, entries - 1 > 127, patterns - 1 > 255,
\* images > 63) writes no packet; the payloads written have the documented
\* lengths (3, 1 and 4 bytes) and a LUT entry carries the pattern number and
\* the trigger type it was given.
C13_OverflowRejected ==
    /\ (op.name = "conv_len" /\ pc = "returned") =>
          (op.a < 2 ^ op.l /\ Len(op.bits) = op.l)
    /\ (op.name = "send_pattern_lut"
            /\ (op.trig_type > 3 \/ op.pat_num > 63 \/ op.bit_depth > 15
                    \/ op.led_select > 15)) => log = <<>>
    /\ (op.name = "mailbox_set_address" /\ op.address > 127) => log = <<>>
    /\ (op.name = "set_pattern_config"
            /\ (op.num_lut_entries - 1 > 127 \/ op.num_pats_for_trig_out2 - 1 > 255
                    \/ op.num_images > 63)) => log = <<>>
    /\ \A k \in 1..Len(calls) :
          First(k) <= Len(log) =>
              /\ Sel(k) = <<26, 52>> => WireLen(k) = 3
              /\ Sel(k) = <<26, 50>> => WireLen(k) = 1
              /\ Sel(k) = <<26, 49>> => WireLen(k) = 4
              /\ (Sel(k) = <<26, 52>> /\ op.name = "send_pattern_lut") =>
                    (WirePatNum(k) = op.pat_num /\ WireTrigType(k) = op.trig_type)

\* the operations that take a mode or action name
EnumOps ==
    {"set_display_mode", "set_pattern_input_source", "set_pattern_trigger_mode",
     "pattern_display"}

\* the names each of them recognizes, and the payload byte of each name
Recognized(name) ==
    CASE name = "set_display_mode" -> {"video", "pattern"}
      [] name = "set_pattern_input_source" -> {"video", "flash"}
      [] name = "set_pattern_trigger_mode" -> {"vsync"}
      [] name = "pattern_display" -> {"stop", "pause", "start"}

RecognizedIndex(name) ==
    CASE name = "set_display_mode" -> {0, 1}
      [] name = "set_pattern_input_source" -> {0, 3}
      [] name = "set_pattern_trigger_mode" -> {0}
      [] name = "pattern_display" -> {0, 1, 2}

\* C14: set_display_mode, set_pattern_input_source, set_pattern_trigger_mode
\* and pattern_display write the index of a recognized name and nothing else:
\* a call whose argument is an integer or no recognized name is rejected with
\* no packet written.
C14_EnumValidated ==
    op.name \in EnumOps =>
        /\ (op.raw \/ op.mode \notin Recognized(op.name)) => log = <<>>
        /\ Len(log) >= 1 =>
              (WireLen(1) = 1 /\ Arg(1) \in RecognizedIndex(op.name))

\* C15: whatever argument set_pattern_input_source is given, the one payload
\* byte it writes is 0 (video) or 3 (flash), never 1 or 2.
C15_InputSourceZeroOrThree ==
    \A k \in 1..Len(calls) :
        (op.name = "set_pattern_input_source" /\ First(k) <= Len(log)) =>
            /\ Sel(k) = <<26, 34>>
            /\ WireLen(k) = 1
            /\ Arg(k) \in {0, 3}

\* C16: the first packet of every command starts with a header of 6 bytes:
\* 0xC0 for direction 'r' and 0x40 otherwise, the sequence byte, len(payload) + 2
\* as 16 bits little-endian, com2, com1; the payload starts at byte 6.
C16_HeaderSixBytes ==
    \A k \in 1..Len(calls) :
        First(k) <= Len(log) =>
            LET buf == log[First(k)].buf
                c == calls[k]
            IN  /\ buf[1] = IF c.mode = "r" THEN 192 ELSE 64
                /\ buf[2] = c.seq
                /\ buf[3] = (c.len + 2) % 256
                /\ buf[4] = (c.len + 2) \div 256
                /\ buf[5] = c.com2
                /\ buf[6] = c.com1
                /\ \A i \in 1..58 : i <= c.len => buf[6 + i] = c.data[i]

\* the caller's set_pattern_config call was handed to command
ConfigCalled == op.name = "set_pattern_config" /\ Len(calls) = 1

\* the call of the scenario: set_pattern_config(3, True, 3, 0)
ConfigScenario ==
    /\ ConfigCalled
    /\ op.num_lut_entries = 3 /\ op.do_repeat
    /\ op.num_pats_for_trig_out2 = 3 /\ op.num_images = 0

\* C17 as stated: set_pattern_config(3, True, 3, 0) hands command the payload
\* [0x00, 0x02, 0x80, 0x02] under selectors 0x1A/0x31.
C17_StatedPayload ==
    ConfigScenario =>
        /\ calls[1].com1 = 26 /\ calls[1].com2 = 49
        /\ calls[1].data = <<0, 2, 128, 2>>

\* C17 (amended): set_pattern_config hands command, under selectors 0x1A/0x31,
\* the 4 bytes entries - 1, repeat flag (bit 0), patterns - 1, images, in this
\* order, whenever the three numbers fit their fields; for (3, True, 3, 0)
\* that is [0x02, 0x01, 0x02, 0x00], and these are the bytes written after
\* the header.
C17_ConfigPayload ==
    /\ ConfigScenario =>
          /\ calls[1].com1 = 26 /\ calls[1].com2 = 49
          /\ calls[1].data = <<2, 1, 2, 0>>
          /\ Sel(1) = <<26, 49>> /\ WireLen(1) = 4
          /\ \A i \in 1..4 : WireByte(1, 6 + i) = calls[1].data[i]
    /\ (ConfigCalled /\ op.num_lut_entries <= 128 /\ op.num_pats_for_trig_out2 <= 256
            /\ op.num_images <= 63) =>
          calls[1].data = <<op.num_lut_entries - 1, IF op.do_repeat THEN 1 ELSE 0,
                            op.num_pats_for_trig_out2 - 1, op.num_images>>

\* set_pattern_config(3, True, 3, 0) was written and answered
C17_Witness == ConfigScenario /\ calls[1].result = "returned" /\ ans = 1

\* the caller's send_pattern_lut call was handed to command, and every
\* argument fits its field
LutCalledInRange ==
    /\ op.name = "send_pattern_lut" /\ Len(calls) = 1
    /\ op.trig_type \in 0..3 /\ op.pat_num \in 0..63
    /\ op.bit_depth \in 0..15 /\ op.led_select \in 0..15

Bit(b) == IF b THEN 1 ELSE 0

\* C18: for arguments that fit their fields send_pattern_lut hands command,
\* under selectors 0x1A/0x34, exactly 3 bytes, in wire order
\* pat_num * 4 + trig_type, led_select * 16 + bit_depth and
\* invert + 2 * insert_black + 4 * buf_swap + 8 * trig_out_prev; these are the
\* bytes written after the header.
C18_LutPacking ==
    LutCalledInRange =>
        /\ calls[1].com1 = 26 /\ calls[1].com2 = 52
        /\ calls[1].data =
              <<op.pat_num * 4 + op.trig_type,
                op.led_select * 16 + op.bit_depth,
                Bit(op.do_invert_pat) + 2 * Bit(op.do_insert_black)
                    + 4 * Bit(op.do_buf_swap) + 8 * Bit(op.do_trig_out_prev)>>
        /\ calls[1].data[3] < 16
        /\ Sel(1) = <<26, 52>> /\ WireLen(1) = 3
        /\ \A i \in 1..3 : WireByte(1, 6 + i) = calls[1].data[i]
        /\ \A i \in 10..64 : WireByte(1, i) = 0

\* a LUT entry with the largest value of every field and the flags invert and
\* buf_swap set was written and answered
C18_Witness ==
    /\ LutCalledInRange
    /\ op.trig_type = 3 /\ op.pat_num = 63 /\ op.bit_depth = 15 /\ op.led_select = 15
    /\ op.do_invert_pat /\ ~op.do_insert_black /\ op.do_buf_swap /\ ~op.do_trig_out_prev
    /\ calls[1].data = <<255, 255, 5>>
    /\ calls[1].result = "returned" /\ ans = 1

\* ceil(w / 8) bytes, each in 0..255
IsByteList(s, w) == Len(s) = CeilDiv(w, 8) /\ \A i \in 1..Len(s) : s[i] \in 0..255

\* the number whose big-endian bytes are s
RECURSIVE BigEndian(_)
BigEndian(s) ==
    IF Len(s) = 0 THEN 0 ELSE 256 * BigEndian(SubSeq(s, 1, Len(s) - 1)) + s[Len(s)]

\* C19: for a width w >= 1 and a value 0 <= v < 2^w, conv_len(v, w) is w
\* binary digits, and bits_to_bytes of it is ceil(w / 8) bytes in 0..255 that
\* read big-endian as v when reverse is False and little-endian as v when
\* reverse is True (the same list, reversed).
C19_CodecRoundTrip ==
    (op.name = "conv_len" /\ op.l >= 1 /\ op.a >= 0 /\ op.a < 2 ^ op.l) =>
        /\ Len(op.bits) = op.l /\ IsBits(op.bits)
        /\ IsByteList(op.bytes, op.l)
        /\ ~op.reverse => BigEndian(op.bytes) = op.a
        /\ op.reverse => BigEndian(Reverse(op.bytes)) = op.a

\* a value of 9 bits came back as the two bytes [1, 255] in little-endian
\* order
C19_Witness ==
    /\ op.name = "conv_len" /\ pc = "returned"
    /\ op.l = 9 /\ op.a = 511 /\ op.reverse
    /\ op.bytes = <<255, 1>>

\* command number k is open_mailbox(n)
IsOpenMailbox(k, n) == Sel(k) = <<26, 51>> /\ WireLen(k) = 1 /\ Arg(k) = n

\* the pattern mailbox is open when command number k is issued: the last
\* open_mailbox before it was written and answered, and opened mailbox 2
MailboxOpenAt(k) ==
    \E o \in 1..(k - 1) :
        /\ IsOpenMailbox(o, 2) /\ calls[o].result = "returned"
        /\ \A c \in (o + 1)..(k - 1) : Sel(c) # <<26, 51>>

\* C20: in a pattern_mode run every send_pattern_lut is written while the
\* pattern mailbox is open, after open_mailbox(2) and before open_mailbox(0),
\* and right after the mailbox_set_address of its own slot; the mailbox has
\* been closed when start_pattern_lut_validate is written, and stays closed.
C20_LutWhileMailboxOpen ==
    proc = "pattern_mode" =>
        /\ \A i \in 1..Len(LutCmds) :
              LET k == LutCmds[i]
              IN  /\ MailboxOpenAt(k)
                  /\ \A c \in 1..(k - 1) : ~IsOpenMailbox(c, 0)
                  /\ k > 1
                  /\ Sel(k - 1) = <<26, 50>> /\ WireLen(k - 1) = 1 /\ Arg(k - 1) = i - 1
                  /\ calls[k - 1].result = "returned"
        /\ \A k \in 1..Len(calls) :
              Sel(k) = <<26, 26>> =>
                  /\ ~MailboxOpenAt(k)
                  /\ k > 1 /\ IsOpenMailbox(k - 1, 0)
                  /\ \E c \in 1..(k - 1) : Sel(c) = <<26, 52>>
        /\ pc = "done" => ~MailboxOpenAt(Len(calls) + 1)

\* a pattern_mode run with 4-bit patterns completed, its three LUT entries
\* sent
C20_Witness ==
    /\ proc = "pattern_mode" /\ pc = "done"
    /\ args.bit_depth = 4
    /\ Len(LutCmds) = 3
    /\ MailboxOpenAt(LutCmds[3])

\* the command whose reply is the last one read successfully among the
\* commands 1..k, 0 when no read of theirs succeeded
GoodReadUpTo(k) ==
    LET S == {log[i].cmd : i \in {j \in 1..Len(log) :
                                     log[j].op = "read" /\ log[j].ok /\ log[j].cmd <= k}}
    IN  IF S = {} THEN 0 ELSE CHOOSE m \in S : \A n \in S : n <= m

\* the reply read of command number k was attempted and raised
ReadFailed(k) == \E i \in 1..Len(log) : log[i].op = "read" /\ log[i].cmd = k /\ ~log[i].ok

\* C21: self.ans is changed only by a successful reply read: it is always the
\* reply of the last command whose read succeeded, unset while none has, also
\* after reads that failed and commands whose write raised; so what
\* get_main_status and read_reply decode after a failed read is the reply of
\* an earlier command, and with self.ans unset they decode nothing.
C21_AnsOnlyBySuccessfulRead ==
    /\ ans = GoodReadUpTo(Len(calls))
    /\ op.name \in {"get_main_status", "read_reply"} =>
          /\ op.decoded =>
                /\ op.shown = GoodReadUpTo(op.after)
                /\ op.shown >= 1
                /\ ReadFailed(op.after) => op.shown < op.after
          /\ exc = "AttributeError" =>
                (~op.decoded /\ ans = 0 /\ GoodReadUpTo(op.after) = 0)

\* get_main_status(pretty_print=True), whose own reply read raised, decoded
\* the reply of the command before it
C21_Witness ==
    /\ op.name = "get_main_status" /\ op.decoded
    /\ op.after = 2 /\ ReadFailed(2)
    /\ op.shown = 1 /\ ans = 1

====
